---- MODULE Spec2Model ----
(***************************************************************************)
(* Model of the FRP client supervisor (FrpcManager) and of the            *)
(* configuration layer it depends on (ConfigManager).                     *)
(*                                                                         *)
(* Time is not counted: a timer that is pending may fire at any moment,   *)
(* which stands for its delay having elapsed; the delay it was set with   *)
(* is kept with it.  Of the 'log' events only the process's stdout lines  *)
(* are modelled; the supervisor's own log texts carry no state.           *)
(***************************************************************************)
EXTENDS Integers, Sequences, FiniteSets, Bags, TLC

VARIABLES
    config,                \* ConfigManager.config
    process,               \* FrpcManager.process: NULL or a child handle
    lastError,             \* FrpcManager.lastError: NULL or a message
    autoReconnect,         \* FrpcManager.autoReconnect
    reconnectAttempts,     \* FrpcManager.reconnectAttempts
    reconnectTimer,        \* FrpcManager.reconnectTimer: NULL or a timer
    intentionallyStopped,  \* FrpcManager.intentionallyStopped
    children,              \* the ChildProcess objects spawn() has returned
    orphanTimers,          \* retry timers still pending that reconnectTimer no longer refers to
    stops,                 \* the stop() calls whose promise is not resolved yet
    retryDelays,           \* delays handed to setTimeout by handleDisconnect since the counter was last reset
    killErrors,            \* how many times kill() has failed so far
    probe,                 \* the socket, timer and promise of the last testConnection() call
    out                    \* what the last step emitted, returned and did to the outside

vars == <<config, process, lastError, autoReconnect, reconnectAttempts,
          reconnectTimer, intentionallyStopped, children, orphanTimers, stops,
          retryDelays, killErrors, probe, out>>

NULL == "null"

(***************************************************************************)
(* Program constants                                                       *)
(***************************************************************************)
maxReconnectAttempts == 5
reconnectDelay == 5000
StopGraceMs == 5000
DefaultTimeoutMs == 5000
PortMax == 65535

(***************************************************************************)
(* Bounds of the model                                                     *)
(***************************************************************************)
MaxKillErrors == 1   \* failures of kill() in one run
MaxChildren == MaxKillErrors + 1   \* a child can only outlive its handle through a failed kill
MaxStops == 1        \* unresolved stop() promises at a time
MaxTunnels == 3      \* tunnels in the configuration
MaxIds == 3          \* identifiers randomUUID() can return

(***************************************************************************)
(* Sequence helpers                                                        *)
(***************************************************************************)
RECURSIVE JoinStr(_, _)
\* Array.prototype.join
JoinStr(strs, sep) ==
    IF Len(strs) = 0 THEN ""
    ELSE IF Len(strs) = 1 THEN strs[1]
    ELSE strs[1] \o sep \o JoinStr(Tail(strs), sep)

\* Array.prototype.indexOf, 1-based; 0 when absent
IndexOf(seq, x) ==
    IF \E i \in 1..Len(seq) : seq[i] = x
    THEN CHOOSE i \in 1..Len(seq) : seq[i] = x /\ \A j \in 1..(i - 1) : seq[j] # x
    ELSE 0

\* a copy that keeps every occurrence
DedupeKeepsAll(seq) == seq

RECURSIVE Dedupe(_)
\* [...new Set(seq)]: first occurrences, in insertion order
Dedupe(seq) ==
    IF Len(seq) = 0 THEN <<>>
    ELSE LET init == Dedupe(SubSeq(seq, 1, Len(seq) - 1))
             last == seq[Len(seq)]
         IN IF IndexOf(init, last) # 0 THEN init ELSE Append(init, last)

\* ports rendered by the template literal / join
MapToStr(seq) == [i \in 1..Len(seq) |-> ToString(seq[i])]

(***************************************************************************)
(* ConfigManager                                                           *)
(***************************************************************************)
Tunnel(id, name, localPort, remotePort, enabled) ==
    [id |-> id, name |-> name, type |-> "tcp", localIP |-> "127.0.0.1",
     localPort |-> localPort, remotePort |-> remotePort, enabled |-> enabled]

AppConfig(addr, port, token, tunnels) ==
    [serverAddr |-> addr, serverPort |-> port, authToken |-> token,
     remotePortMin |-> 6000, remotePortMax |-> 6100, autoStart |-> FALSE,
     tunnels |-> tunnels]

DEFAULT_CONFIG == AppConfig("", 7000, "", <<>>)

RECURSIVE DuplicatesFrom(_, _)
\* remotePorts.filter((port, index) => remotePorts.indexOf(port) !== index), from index i on
DuplicatesFrom(remotePorts, i) ==
    IF i > Len(remotePorts) THEN <<>>
    ELSE (IF IndexOf(remotePorts, remotePorts[i]) # i THEN <<remotePorts[i]>> ELSE <<>>)
         \o DuplicatesFrom(remotePorts, i + 1)

RECURSIVE TunnelErrorsLocalOnly(_)
\* a per-tunnel loop that forgets the remote port
TunnelErrorsLocalOnly(tunnels) ==
    IF Len(tunnels) = 0 THEN <<>>
    ELSE LET t == tunnels[1]
         IN (IF t.localPort < 1 \/ t.localPort > PortMax
             THEN <<"Tunnel \"" \o t.name \o "\": local port must be between 1 and 65535">>
             ELSE <<>>)
            \o TunnelErrorsLocalOnly(Tail(tunnels))

RECURSIVE TunnelErrors(_)
\* the per-tunnel loop of validateConfig
TunnelErrors(tunnels) ==
    IF Len(tunnels) = 0 THEN <<>>
    ELSE LET t == tunnels[1]
         IN (IF t.localPort < 1 \/ t.localPort > PortMax
             THEN <<"Tunnel \"" \o t.name \o "\": local port must be between 1 and 65535">>
             ELSE <<>>)
            \o (IF t.remotePort < 1 \/ t.remotePort > PortMax
                THEN <<"Tunnel \"" \o t.name \o "\": remote port must be between 1 and 65535">>
                ELSE <<>>)
            \o TunnelErrors(Tail(tunnels))

validateErrors(cfg) ==
    LET remotePorts == [i \in 1..Len(cfg.tunnels) |-> cfg.tunnels[i].remotePort]
        duplicates == DuplicatesFrom(remotePorts, 1)
    IN (IF cfg.serverAddr = "" THEN <<"Server address is required">> ELSE <<>>)
       \o (IF cfg.serverPort = 0 \/ cfg.serverPort < 1 \/ cfg.serverPort > PortMax
           THEN <<"Server port must be between 1 and 65535">> ELSE <<>>)
       \o (IF cfg.authToken = "" THEN <<"Auth token is required">> ELSE <<>>)
       \o (IF Len(duplicates) > 0
           THEN <<"Duplicate remote ports: " \o JoinStr(MapToStr(Dedupe(duplicates)), ", ")>>
           ELSE <<>>)
       \o TunnelErrors(cfg.tunnels)

validateConfig(cfg) ==
    LET errors == validateErrors(cfg)
    IN [valid |-> Len(errors) = 0, errors |-> errors]

\* { ...record, ...updates }
Merge(record, updates) ==
    [f \in DOMAIN record |-> IF f \in DOMAIN updates THEN updates[f] ELSE record[f]]

\* tunnels.findIndex(t => t.id === id), 1-based; 0 when absent
findIndex(tunnels, id) ==
    IF \E i \in 1..Len(tunnels) : tunnels[i].id = id
    THEN CHOOSE i \in 1..Len(tunnels) :
             tunnels[i].id = id /\ \A j \in 1..(i - 1) : tunnels[j].id # id
    ELSE 0

\* addTunnel, with the identifier randomUUID() returned
addTunnel(cfg, tunnel, id) ==
    LET named == IF tunnel.name = ""
                 THEN [tunnel EXCEPT !.name = "tcp-" \o ToString(tunnel.localPort)]
                 ELSE tunnel
    IN [cfg EXCEPT !.tunnels = Append(@, [named EXCEPT !.id = id])]

\* an updateTunnel that creates the tunnel when the identifier is unknown
updateTunnelUpsert(cfg, id, updates) ==
    LET index == findIndex(cfg.tunnels, id)
    IN IF index = 0
       THEN [ok |-> TRUE,
             config |-> [cfg EXCEPT !.tunnels =
                            Append(@, Merge(Tunnel(id, "", 0, 0, TRUE), updates))]]
       ELSE [ok |-> TRUE,
             config |-> [cfg EXCEPT !.tunnels[index] = Merge(@, updates)]]

\* updateTunnel: ok is FALSE where the code throws
updateTunnel(cfg, id, updates) ==
    LET index == findIndex(cfg.tunnels, id)
    IN IF index = 0 THEN [ok |-> FALSE, config |-> cfg]
       ELSE [ok |-> TRUE,
             config |-> [cfg EXCEPT !.tunnels[index] = Merge(@, updates)]]

\* removeTunnel: ok is FALSE where the code throws
removeTunnel(cfg, id) ==
    LET index == findIndex(cfg.tunnels, id)
    IN IF index = 0 THEN [ok |-> FALSE, config |-> cfg]
       ELSE [ok |-> TRUE,
             config |-> [cfg EXCEPT !.tunnels =
                            SubSeq(@, 1, index - 1) \o SubSeq(@, index + 1, Len(@))]]

RECURSIVE ProxyBlocks(_)
\* the lines pushed by the loop over the enabled tunnels
ProxyBlocks(enabledTunnels) ==
    IF Len(enabledTunnels) = 0 THEN <<>>
    ELSE LET tunnel == enabledTunnels[1]
         IN << "",
               "[[proxies]]",
               "name = \"" \o tunnel.name \o "\"",
               "type = \"" \o tunnel.type \o "\"",
               "localIP = \"" \o tunnel.localIP \o "\"",
               "localPort = " \o ToString(tunnel.localPort),
               "remotePort = " \o ToString(tunnel.remotePort) >>
            \o ProxyBlocks(Tail(enabledTunnels))

\* no filter: every tunnel is rendered
EnabledTunnelsAll(tunnels) == tunnels

\* tunnels.filter(t => t.enabled !== false)
EnabledTunnels(tunnels) == SelectSeq(tunnels, LAMBDA t : t.enabled # FALSE)

\* generateFrpcConfig before lines.join
FrpcConfigLines(cfg) ==
    << "serverAddr = \"" \o cfg.serverAddr \o "\"",
       "serverPort = " \o ToString(cfg.serverPort),
       "",
       "auth.method = \"token\"",
       "auth.token = \"" \o cfg.authToken \o "\"" >>
    \o ProxyBlocks(EnabledTunnels(cfg.tunnels))

generateFrpcConfig(cfg) == JoinStr(FrpcConfigLines(cfg), "\n")

\* the mask of the source, twelve bullets, written in ASCII
MaskedToken == "************"

\* a preview that never masks
ConfigPreviewLinesUnmasked(cfg, showToken) == FrpcConfigLines(cfg)

\* Settings.generateConfigPreview before lines.join, on the form's fields
ConfigPreviewLines(cfg, showToken) ==
    LET maskedToken == IF showToken THEN cfg.authToken
                       ELSE IF cfg.authToken # "" THEN MaskedToken ELSE ""
    IN << "serverAddr = \"" \o cfg.serverAddr \o "\"",
          "serverPort = " \o ToString(cfg.serverPort),
          "",
          "auth.method = \"token\"",
          "auth.token = \"" \o maskedToken \o "\"" >>
       \o ProxyBlocks(EnabledTunnels(cfg.tunnels))

generateConfigPreview(cfg, showToken) == JoinStr(ConfigPreviewLines(cfg, showToken), "\n")

\* JSON.stringify of a string, a number, a boolean
JsonStr(s) == "\"" \o s \o "\""
JsonBool(b) == IF b THEN "true" ELSE "false"

\* JSON.stringify(tunnel, null, 2) at nesting depth 2, as lines
TunnelJson(tunnel) ==
    << "    {",
       "      \"id\": " \o JsonStr(tunnel.id) \o ",",
       "      \"name\": " \o JsonStr(tunnel.name) \o ",",
       "      \"type\": " \o JsonStr(tunnel.type) \o ",",
       "      \"localIP\": " \o JsonStr(tunnel.localIP) \o ",",
       "      \"localPort\": " \o ToString(tunnel.localPort) \o ",",
       "      \"remotePort\": " \o ToString(tunnel.remotePort) \o ",",
       "      \"enabled\": " \o JsonBool(tunnel.enabled),
       "    }" >>

RECURSIVE TunnelsJson(_)
\* the elements of the tunnels array, comma separated
TunnelsJson(tunnels) ==
    IF Len(tunnels) = 0 THEN <<>>
    ELSE IF Len(tunnels) = 1 THEN TunnelJson(tunnels[1])
    ELSE LET one == TunnelJson(tunnels[1])
         IN [one EXCEPT ![Len(one)] = @ \o ","] \o TunnelsJson(Tail(tunnels))

\* an export that carries the whole stored configuration
ExportLinesWithToken(cfg) ==
    << "{",
       "  \"serverAddr\": " \o JsonStr(cfg.serverAddr) \o ",",
       "  \"serverPort\": " \o ToString(cfg.serverPort) \o ",",
       "  \"authToken\": " \o JsonStr(cfg.authToken) \o ",",
       "  \"remotePortMin\": " \o ToString(cfg.remotePortMin) \o ",",
       "  \"remotePortMax\": " \o ToString(cfg.remotePortMax) \o ",",
       "  \"autoStart\": " \o JsonBool(cfg.autoStart) \o "," >>
    \o (IF Len(cfg.tunnels) = 0 THEN << "  \"tunnels\": []" >>
        ELSE << "  \"tunnels\": [" >> \o TunnelsJson(cfg.tunnels) \o << "  ]" >>)
    \o << "}" >>

\* exportConfig before the lines of JSON.stringify(exportData, null, 2) are joined
ExportLines(cfg) ==
    << "{",
       "  \"serverAddr\": " \o JsonStr(cfg.serverAddr) \o ",",
       "  \"serverPort\": " \o ToString(cfg.serverPort) \o ",",
       "  \"remotePortMin\": " \o ToString(cfg.remotePortMin) \o ",",
       "  \"remotePortMax\": " \o ToString(cfg.remotePortMax) \o ",",
       "  \"autoStart\": " \o JsonBool(cfg.autoStart) \o "," >>
    \o (IF Len(cfg.tunnels) = 0 THEN << "  \"tunnels\": []" >>
        ELSE << "  \"tunnels\": [" >> \o TunnelsJson(cfg.tunnels) \o << "  ]" >>)
    \o << "}" >>

exportConfig(cfg) == JoinStr(ExportLines(cfg), "\n")

(***************************************************************************)
(* FrpcManager: values                                                     *)
(***************************************************************************)
NoProcess == 0                       \* this.process === null
NoCode == -1                         \* exit code null (terminated by a signal)
ExitCodes == {0, 1, NoCode}
ChildIds == 1..MaxChildren

NoTimer == [state |-> "none", delay |-> 0]      \* this.reconnectTimer === null
FreeChild == [st |-> "free", connected |-> FALSE]

\* outcomes of child_process.spawn: a running child, a child whose launch
\* failure is reported by its 'error' event, or a synchronous exception
SpawnOutcomes == {"ok", "enoent", "throw"}
\* outcomes of ChildProcess.kill on a live child: signal sent, or the
\* 'error' event emitted from inside kill() while the child lives on
KillOutcomes == {"sent", "eperm"}

\* the install locations that may exist on disk
FsStates == {{}, {"/usr/bin/frpc"}}

Ev(ev, arg, n) == [ev |-> ev, arg |-> arg, n |-> n]
Emit(s, e) == [s EXCEPT !.out = Append(@, e)]
Has(seq, e) == \E i \in 1..Len(seq) : seq[i] = e
HasEv(seq, ev) == \E i \in 1..Len(seq) : seq[i].ev = ev
CountEv(seq, e) == Cardinality({i \in 1..Len(seq) : seq[i] = e})

(***************************************************************************)
(* FrpcManager.testConnection: one socket, one timer, one promise          *)
(***************************************************************************)
NoResult == [success |-> FALSE, error |-> NULL]
NoProbe ==
    [socket |-> "none", timer |-> "none", timeout |-> 0,
     promise |-> "none", result |-> NoResult]

\* resolve() and reject() of a promise that is already settled do nothing
resolve(p, r) ==
    IF p.promise = "pending" THEN [p EXCEPT !.promise = "resolved", !.result = r] ELSE p
reject(p, message) ==
    IF p.promise = "pending"
    THEN [p EXCEPT !.promise = "rejected", !.result = [success |-> FALSE, error |-> message]]
    ELSE p
clearTimeout(p) == IF p.timer = "pending" THEN [p EXCEPT !.timer = "cleared"] ELSE p
destroy(p) == [p EXCEPT !.socket = "destroyed"]

\* socket.connect(port, host, cb) validates the port before it connects and
\* throws when it is not in 0..65535
ConnectThrows(port) == port \notin 0..PortMax
BadPortMessage == "ERR_SOCKET_BAD_PORT"

\* args is <<host, port>> or <<host, port, timeout>>. The executor creates
\* the socket, sets the timer and calls socket.connect; an exception in the
\* executor rejects the promise and skips socket.on('error', ...)
testConnection(args) ==
    LET port == args[2]
        timeout == IF Len(args) >= 3 THEN args[3] ELSE DefaultTimeoutMs
        created == [socket |-> "created", timer |-> "pending", timeout |-> timeout,
                    promise |-> "pending", result |-> NoResult]
    IN IF ConnectThrows(port) THEN reject(created, BadPortMessage)
       ELSE [created EXCEPT !.socket = "connecting"]

onProbeTimeout(p) ==
    resolve(destroy([p EXCEPT !.timer = "fired"]),
            [success |-> FALSE, error |-> "Connection timeout"])
onConnect(p) == resolve(destroy(clearTimeout(p)), [success |-> TRUE, error |-> NULL])
onSocketError(p, message) ==
    resolve(destroy(clearTimeout(p)), [success |-> FALSE, error |-> message])

\* the supervisor and its environment as one value, so that a handler can
\* be written as a function of the state it runs in
Cur ==
    [config |-> config, process |-> process, lastError |-> lastError,
     autoReconnect |-> autoReconnect, reconnectAttempts |-> reconnectAttempts,
     reconnectTimer |-> reconnectTimer, intentionallyStopped |-> intentionallyStopped,
     children |-> children, orphanTimers |-> orphanTimers, stops |-> stops,
     retryDelays |-> retryDelays, killErrors |-> killErrors,
     out |-> <<>>, ok |-> TRUE]

\* a stop() that can neither resolve nor act any more: the child it listens
\* to will emit no 'exit' and its grace-period timer has fired
Inert(r) == r.child = NoProcess /\ r.timeout = "fired"
Live(rs) == SelectSeq(rs, LAMBDA r : ~Inert(r))

RECURSIVE Settle(_)
\* the waiting stop() calls, equal inert ones kept once
Settle(rs) ==
    IF Len(rs) = 0 THEN <<>>
    ELSE LET init == Settle(SubSeq(rs, 1, Len(rs) - 1))
             last == rs[Len(rs)]
         IN IF Inert(last) /\ (\E i \in 1..Len(init) : init[i] = last) THEN init
            ELSE Append(init, last)

\* a step is taken only when its result stays within the bounds of the model
Apply(s) ==
    /\ s.ok
    /\ s.killErrors <= MaxKillErrors
    /\ Len(Live(s.stops)) <= MaxStops
    /\ config' = s.config
    /\ process' = s.process
    /\ lastError' = s.lastError
    /\ autoReconnect' = s.autoReconnect
    /\ reconnectAttempts' = s.reconnectAttempts
    /\ reconnectTimer' = s.reconnectTimer
    /\ intentionallyStopped' = s.intentionallyStopped
    /\ children' = s.children
    /\ orphanTimers' = s.orphanTimers
    /\ stops' = Settle(s.stops)
    /\ retryDelays' = s.retryDelays
    /\ killErrors' = s.killErrors
    /\ probe' = probe
    /\ out' = s.out

(***************************************************************************)
(* FrpcManager: handlers                                                   *)
(***************************************************************************)
showNotification(s, title) == Emit(s, Ev("notify", title, 0))

findFrpcBinary(fs) ==
    LET locations == <<"/usr/local/bin/frpc", "/usr/bin/frpc", "/opt/frp-gui/frpc/frpc", "frpc">>
        hits == {i \in 1..Len(locations) : locations[i] = "frpc" \/ locations[i] \in fs}
    IN IF hits # {}
       THEN locations[CHOOSE i \in hits : \A j \in hits : i <= j]
       ELSE "frpc"

\* clearTimeout(this.reconnectTimer); this.reconnectTimer = null
clearReconnectTimer(s) ==
    IF s.reconnectTimer.state # "none" THEN [s EXCEPT !.reconnectTimer = NoTimer] ELSE s

\* const delay = this.reconnectDelay * this.reconnectAttempts
\* a delay that does not grow with the attempt
backoffFixed(attempt) == reconnectDelay

backoff(attempt) == reconnectDelay * attempt

\* a reconnect flow that schedules the retry without counting it
handleDisconnectUncounted(s) ==
    IF s.intentionallyStopped \/ ~s.autoReconnect THEN s
    ELSE IF s.reconnectAttempts >= maxReconnectAttempts
    THEN showNotification(s, "FRP Reconnect Failed")
    ELSE LET delay == backoff(s.reconnectAttempts + 1)
             s1 == [s EXCEPT !.retryDelays = Append(@, delay),
                             !.orphanTimers = IF s.reconnectTimer.state = "pending"
                                              THEN @ (+) SetToBag({s.reconnectTimer.delay})
                                              ELSE @,
                             !.reconnectTimer = [state |-> "pending", delay |-> delay]]
         IN Emit(s1, Ev("setTimeout", "reconnect", delay))

\* a reconnect flow that runs whatever the flag and the setting say
handleDisconnectAlways(s) ==
    IF s.reconnectAttempts >= maxReconnectAttempts
    THEN showNotification(s, "FRP Reconnect Failed")
    ELSE LET n == s.reconnectAttempts + 1
             delay == backoff(n)
             s1 == [s EXCEPT !.reconnectAttempts = n,
                             !.retryDelays = Append(@, delay),
                             !.orphanTimers = IF s.reconnectTimer.state = "pending"
                                              THEN @ (+) SetToBag({s.reconnectTimer.delay})
                                              ELSE @,
                             !.reconnectTimer = [state |-> "pending", delay |-> delay]]
         IN Emit(s1, Ev("setTimeout", "reconnect", delay))

handleDisconnect(s) ==
    IF s.intentionallyStopped \/ ~s.autoReconnect THEN s
    ELSE IF s.reconnectAttempts >= maxReconnectAttempts
    THEN showNotification(s, "FRP Reconnect Failed")
    ELSE LET n == s.reconnectAttempts + 1
             delay == backoff(n)
             s1 == [s EXCEPT !.reconnectAttempts = n,
                             !.retryDelays = Append(@, delay),
                             \* the old handle is overwritten, not cleared
                             !.orphanTimers = IF s.reconnectTimer.state = "pending"
                                              THEN @ (+) SetToBag({s.reconnectTimer.delay})
                                              ELSE @,
                             !.reconnectTimer = [state |-> "pending", delay |-> delay]]
         IN Emit(s1, Ev("setTimeout", "reconnect", delay))

\* an 'error' listener that stays out of the reconnect flow
onErrorNoReconnect(s, cause) ==
    LET s1 == [s EXCEPT !.lastError = "Failed to start frpc: " \o cause]
        s2 == Emit(s1, Ev("error", s1.lastError, 0))
        s3 == [s2 EXCEPT !.process = NoProcess]
    IN Emit(s3, Ev("status", "stopped", 0))

\* the 'error' listener start() registers on the child
onError(s, cause) ==
    LET s1 == [s EXCEPT !.lastError = "Failed to start frpc: " \o cause]
        s2 == Emit(s1, Ev("error", s1.lastError, 0))
        s3 == [s2 EXCEPT !.process = NoProcess]
    IN handleDisconnect(Emit(s3, Ev("status", "stopped", 0)))

\* ChildProcess.kill(signal) on the child this.process refers to
kill(s, signal, outcome) ==
    LET p == s.process
        s1 == Emit(s, Ev("kill", signal, p))
    IN IF s.children[p].st = "alive" /\ outcome = "eperm"
       THEN onError([s1 EXCEPT !.killErrors = @ + 1], "kill EPERM")
       ELSE s1

\* start(), from writing the configuration file on
launch(s, fs, outcome) ==
    LET s2 == Emit(s, Ev("writeFrpcConfig", "frpc.toml", 0))
        frpcPath == findFrpcBinary(fs)
    IN IF frpcPath = NULL
       THEN LET s3 == [s2 EXCEPT !.lastError = "frpc binary not found. Please install FRP."]
            IN Emit(Emit(s3, Ev("error", s3.lastError, 0)), Ev("return", "start", 0))
       ELSE IF outcome = "throw"
       THEN LET s3 == [s2 EXCEPT !.lastError = "Failed to start frpc: Error: spawn"]
            IN Emit(Emit(s3, Ev("error", s3.lastError, 0)), Ev("return", "start", 0))
       ELSE LET free == {c \in ChildIds : s2.children[c].st = "free"}
            IN IF free = {} THEN [s2 EXCEPT !.ok = FALSE]
               ELSE LET p == CHOOSE c \in free : \A d \in free : c <= d
                        s3 == [s2 EXCEPT !.process = p,
                                         !.children[p] =
                                             [st |-> IF outcome = "ok" THEN "alive" ELSE "failed",
                                              connected |-> FALSE],
                                         !.lastError = NULL]
                    IN Emit(Emit(Emit(s3, Ev("spawn", "frpc", p)),
                                 Ev("status", "running", 0)),
                            Ev("return", "start", 1))

\* start() that launches whatever validateConfig says
startUnvalidated(s, fs, outcome) ==
    IF s.process # NoProcess
    THEN Emit(s, Ev("return", "start", 1))
    ELSE launch([clearReconnectTimer(s) EXCEPT !.intentionallyStopped = FALSE], fs, outcome)

\* start() that stays down once the retries are used up
startGivesUpAfterMax(s, fs, outcome) ==
    IF s.process # NoProcess
    THEN Emit(s, Ev("return", "start", 1))
    ELSE IF s.reconnectAttempts >= maxReconnectAttempts
    THEN Emit(s, Ev("return", "start", 0))
    ELSE LET s1 == [clearReconnectTimer(s) EXCEPT !.intentionallyStopped = FALSE]
             validation == validateConfig(s1.config)
         IN IF ~validation.valid
            THEN LET s2 == [s1 EXCEPT !.lastError = JoinStr(validation.errors, "; ")]
                 IN Emit(Emit(s2, Ev("error", s2.lastError, 0)), Ev("return", "start", 0))
            ELSE launch(s1, fs, outcome)

\* a start() that clears the intentional-stop flag before it looks at the process
startClearsFlagFirst(s, fs, outcome) ==
    LET s0 == [s EXCEPT !.intentionallyStopped = FALSE]
    IN IF s0.process # NoProcess
       THEN Emit(s0, Ev("return", "start", 1))
       ELSE LET s1 == clearReconnectTimer(s0)
                validation == validateConfig(s1.config)
            IN IF ~validation.valid
               THEN LET s2 == [s1 EXCEPT !.lastError = JoinStr(validation.errors, "; ")]
                    IN Emit(Emit(s2, Ev("error", s2.lastError, 0)), Ev("return", "start", 0))
               ELSE launch(s1, fs, outcome)

start(s, fs, outcome) ==
    IF s.process # NoProcess
    THEN Emit(s, Ev("return", "start", 1))
    ELSE LET s1 == [clearReconnectTimer(s) EXCEPT !.intentionallyStopped = FALSE]
             validation == validateConfig(s1.config)
         IN IF ~validation.valid
            THEN LET s2 == [s1 EXCEPT !.lastError = JoinStr(validation.errors, "; ")]
                 IN Emit(Emit(s2, Ev("error", s2.lastError, 0)), Ev("return", "start", 0))
            ELSE launch(s1, fs, outcome)

\* line.includes(marker), on lines and markers split into words
includes(line, marker) ==
    \E i \in 1..(Len(line) - Len(marker) + 1) :
        SubSeq(line, i, i + Len(marker) - 1) = marker

LoginMarker == <<"login", "to", "server", "success">>
ProxyMarker == <<"start", "proxy", "success">>

\* the test the stdout listener applies to a line
isConnectedLine(line) == includes(line, LoginMarker) \/ includes(line, ProxyMarker)

RECURSIVE onStdoutEveryLine(_, _, _)
\* a stdout listener that does not remember having seen a success marker
onStdoutEveryLine(s, p, lines) ==
    IF Len(lines) = 0 THEN s
    ELSE LET line == lines[1]
             s1 == Emit(s, Ev("log", JoinStr(line, " "), 0))
             s2 == IF isConnectedLine(line)
                   THEN showNotification([s1 EXCEPT !.children[p].connected = TRUE,
                                                     !.reconnectAttempts = 0,
                                                     !.retryDelays = <<>>],
                                         "FRP Connected")
                   ELSE s1
         IN onStdoutEveryLine(s2, p, Tail(lines))

RECURSIVE onStdout(_, _, _)
\* the stdout 'data' listener of child p, over the lines of one chunk
onStdout(s, p, lines) ==
    IF Len(lines) = 0 THEN s
    ELSE LET line == lines[1]
             s1 == Emit(s, Ev("log", JoinStr(line, " "), 0))
             s2 == IF isConnectedLine(line) /\ ~s1.children[p].connected
                   THEN showNotification([s1 EXCEPT !.children[p].connected = TRUE,
                                                     !.reconnectAttempts = 0,
                                                     !.retryDelays = <<>>],
                                         "FRP Connected")
                   ELSE s1
         IN onStdout(s2, p, Tail(lines))

\* the 'exit' listener start() registers on child p
onExit(s, p, code) ==
    LET s1 == IF code # 0 /\ code # NoCode
              THEN LET e == [s EXCEPT !.lastError = "frpc exited with code " \o ToString(code)]
                   IN Emit(e, Ev("error", e.lastError, 0))
              ELSE s
        s2 == [s1 EXCEPT !.process = NoProcess]
        s3 == Emit(s2, Ev("status", "stopped", 0))
        s4 == IF s.children[p].connected THEN showNotification(s3, "FRP Disconnected") ELSE s3
    IN handleDisconnect(s4)

RECURSIVE onStopExit(_, _)
\* the once('exit') listeners of the n stop() calls waiting for the child
onStopExit(s, n) ==
    IF n = 0 THEN s
    ELSE LET s1 == [s EXCEPT !.process = NoProcess]
             s2 == Emit(s1, Ev("status", "stopped", 0))
         IN onStopExit(Emit(s2, Ev("resolve", "stop", 1)), n - 1)

RECURSIVE afterStop(_, _, _, _)
\* restart(): the start() that follows each resolved 'await this.stop()'
afterStop(s, n, fs, outcome) ==
    IF n = 0 THEN s ELSE afterStop(start(s, fs, outcome), n - 1, fs, outcome)

\* the child exits: its listeners run in the order they were registered,
\* then the continuations of the promises they resolved
childExit(s, p, code, fs, outcome) ==
    LET mine == SelectSeq(s.stops, LAMBDA r : r.child = p)
        others == SelectSeq(s.stops, LAMBDA r : r.child # p)
        restarts == SelectSeq(mine, LAMBDA r : r.restart)
        s1 == onExit(s, p, code)
        s2 == onStopExit([s1 EXCEPT !.stops = others], Len(mine))
        s3 == [s2 EXCEPT !.children[p] = FreeChild]
    IN afterStop(s3, Len(restarts), fs, outcome)

\* a child that could not be launched reports it: only 'error' is emitted,
\* so the exit listeners registered on it never run
childSpawnError(s, p) ==
    LET s1 == onError(s, "spawn frpc ENOENT")
    IN [s1 EXCEPT !.children[p] = FreeChild,
                  !.stops = [i \in 1..Len(@) |->
                                IF @[i].child = p THEN [@[i] EXCEPT !.child = NoProcess] ELSE @[i]]]

\* a stop() that leaves the retry timer alone
stopKeepsRetry(s, restart, outcome) ==
    LET s1 == [s EXCEPT !.intentionallyStopped = TRUE]
    IN IF s1.process = NoProcess
       THEN Emit(s1, Ev("resolve", "stop", 1))
       ELSE LET s2 == [s1 EXCEPT !.stops = Append(@, [child |-> s1.process,
                                                      timeout |-> "pending",
                                                      restart |-> restart])]
            IN kill(Emit(s2, Ev("setTimeout", "stop", StopGraceMs)), "SIGTERM", outcome)

\* a stop() that resolves as soon as the signal is sent
stopResolvesOnSignal(s, restart, outcome) ==
    LET s1 == clearReconnectTimer([s EXCEPT !.intentionallyStopped = TRUE])
    IN IF s1.process = NoProcess
       THEN Emit(s1, Ev("resolve", "stop", 1))
       ELSE Emit(kill(s1, "SIGTERM", outcome), Ev("resolve", "stop", 1))

\* a stop() that reports 'stopped' also when nothing was running
stopIdleEmitsStatus(s, restart, outcome) ==
    LET s1 == clearReconnectTimer([s EXCEPT !.intentionallyStopped = TRUE])
    IN IF s1.process = NoProcess
       THEN Emit(Emit(s1, Ev("status", "stopped", 0)), Ev("resolve", "stop", 1))
       ELSE LET s2 == [s1 EXCEPT !.stops = Append(@, [child |-> s1.process,
                                                      timeout |-> "pending",
                                                      restart |-> restart])]
            IN kill(Emit(s2, Ev("setTimeout", "stop", StopGraceMs)), "SIGTERM", outcome)

\* a stop() that returns when nothing is running before it clears the retry timer
stopIdleKeepsRetry(s, restart, outcome) ==
    LET s0 == [s EXCEPT !.intentionallyStopped = TRUE]
    IN IF s0.process = NoProcess
       THEN Emit(s0, Ev("resolve", "stop", 1))
       ELSE LET s1 == clearReconnectTimer(s0)
                s2 == [s1 EXCEPT !.stops = Append(@, [child |-> s1.process,
                                                      timeout |-> "pending",
                                                      restart |-> restart])]
            IN kill(Emit(s2, Ev("setTimeout", "stop", StopGraceMs)), "SIGTERM", outcome)

stop(s, restart, outcome) ==
    LET s1 == clearReconnectTimer([s EXCEPT !.intentionallyStopped = TRUE])
    IN IF s1.process = NoProcess
       THEN Emit(s1, Ev("resolve", "stop", 1))
       ELSE LET s2 == [s1 EXCEPT !.stops = Append(@, [child |-> s1.process,
                                                      timeout |-> "pending",
                                                      restart |-> restart])]
            IN kill(Emit(s2, Ev("setTimeout", "stop", StopGraceMs)), "SIGTERM", outcome)

\* a restart() that does not await stop()
restartWithoutAwait(s, fs, spawnOutcome, killOutcome) ==
    start(stop(s, TRUE, killOutcome), fs, spawnOutcome)

restart(s, fs, spawnOutcome, killOutcome) ==
    LET s1 == stop(s, TRUE, killOutcome)
    IN IF s.process = NoProcess THEN start(s1, fs, spawnOutcome) ELSE s1

\* the grace-period callback of the i-th waiting stop()
onStopTimeout(s, i, outcome) ==
    LET s1 == [s EXCEPT !.stops[i].timeout = "fired"]
    IN IF s1.process # NoProcess
       THEN kill(s1, "SIGKILL", outcome)
       ELSE s1

(***************************************************************************)
(* Inputs                                                                  *)
(***************************************************************************)
ValidConfig == AppConfig("frp.example.com", 7000, "secret", <<Tunnel("t1", "web", 8080, 6001, TRUE)>>)
Configs == {ValidConfig, DEFAULT_CONFIG}

LoginLine == <<"[I]", "login", "to", "server", "success">>
ProxyLine == <<"[I]", "[web]", "start", "proxy", "success">>
OtherLine == <<"[W]", "connect", "to", "server", "error">>
Chunks == {<<OtherLine>>, <<LoginLine, LoginLine>>, <<OtherLine, ProxyLine>>}

(***************************************************************************)
(* Actions                                                                 *)
(***************************************************************************)
Trigger(kind, what, n) == Emit(Cur, Ev(kind, what, n))

Init ==
    /\ config \in Configs
    /\ process = NoProcess
    /\ lastError = NULL
    /\ autoReconnect = TRUE
    /\ reconnectAttempts = 0
    /\ reconnectTimer = NoTimer
    /\ intentionallyStopped = FALSE
    /\ children = [c \in ChildIds |-> FreeChild]
    /\ orphanTimers = EmptyBag
    /\ stops = <<>>
    /\ retryDelays = <<>>
    /\ killErrors = 0
    /\ probe = NoProbe
    /\ out = <<>>

\* the inputs the environment decides: what is on disk and what spawn() does
\* (they are only enumerated where the handler gets as far as spawning)
SpawnEnvs ==
    {[fs |-> fs, spawn |-> oc] : fs \in FsStates, oc \in SpawnOutcomes}
NoSpawnEnv == [fs |-> {}, spawn |-> "ok"]
SpawnChoices(starts) ==
    IF starts /\ validateConfig(config).valid THEN SpawnEnvs ELSE {NoSpawnEnv}
\* what kill() does is only open when it reaches a live child
KillChoices(outcomes) ==
    IF process # NoProcess /\ children[process].st = "alive" THEN outcomes ELSE {"sent"}

Start ==
    \E e \in SpawnChoices(process = NoProcess) :
        Apply(start(Trigger("call", "start", 0), e.fs, e.spawn))

Stop(outcomes) ==
    \E ko \in KillChoices(outcomes) :
        Apply(stop(Trigger("call", "stop", 0), FALSE, ko))

Restart(outcomes) ==
    \E e \in SpawnChoices(process = NoProcess), ko \in KillChoices(outcomes) :
        Apply(restart(Trigger("call", "restart", 0), e.fs, e.spawn, ko))

SetAutoReconnect ==
    \E enabled \in BOOLEAN :
        /\ enabled # autoReconnect
        /\ Apply([Cur EXCEPT !.autoReconnect = enabled])

SaveConfig ==
    \E c \in Configs :
        /\ c # config
        /\ Apply([Cur EXCEPT !.config = c])

ChildStdout ==
    \E p \in ChildIds, chunk \in Chunks :
        /\ children[p].st = "alive"
        /\ Apply(onStdout(Trigger("child", "stdout", p), p, chunk))

ChildExit ==
    \E p \in ChildIds, code \in ExitCodes :
        /\ children[p].st = "alive"
        /\ \E e \in SpawnChoices(\E i \in 1..Len(stops) : stops[i].child = p /\ stops[i].restart) :
               Apply(childExit(Trigger("child", "exit", p), p, code, e.fs, e.spawn))

ChildSpawnError ==
    \E p \in ChildIds :
        /\ children[p].st = "failed"
        /\ Apply(childSpawnError(Trigger("child", "error", p), p))

ReconnectTimerFires ==
    /\ reconnectTimer.state = "pending"
    /\ \E e \in SpawnChoices(process = NoProcess) :
           Apply(start([Trigger("timer", "reconnect", 0) EXCEPT !.reconnectTimer.state = "fired"],
                       e.fs, e.spawn))

OrphanTimerFires ==
    \E d \in BagToSet(orphanTimers), e \in SpawnChoices(process = NoProcess) :
        Apply(start([Trigger("timer", "orphan", 0) EXCEPT !.orphanTimers = @ (-) SetToBag({d})],
                    e.fs, e.spawn))

StopTimeoutFires(outcomes) ==
    \E i \in 1..Len(stops), ko \in KillChoices(outcomes) :
        /\ stops[i].timeout = "pending"
        /\ Apply(onStopTimeout(Trigger("timer", "stop", stops[i].child), i, ko))

\* the supervisor where every signal it sends is delivered
Next ==
    \/ Start
    \/ Stop({"sent"})
    \/ Restart({"sent"})
    \/ SetAutoReconnect
    \/ SaveConfig
    \/ ChildStdout
    \/ ChildExit
    \/ ChildSpawnError
    \/ ReconnectTimerFires
    \/ StopTimeoutFires({"sent"})

Spec == Init /\ [][Next]_vars

\* the supervisor where kill() may also fail (up to MaxKillErrors times):
\* only then can a child outlive the handle the supervisor holds on it.
\* The configuration and the auto-reconnect setting stay as constructed.
NextKillFails ==
    \/ Start
    \/ Stop(KillOutcomes)
    \/ Restart(KillOutcomes)
    \/ ChildStdout
    \/ ChildExit
    \/ ChildSpawnError
    \/ ReconnectTimerFires
    \/ OrphanTimerFires
    \/ StopTimeoutFires(KillOutcomes)

SpecKillFails == Init /\ [][NextKillFails]_vars

(***************************************************************************)
(* ConfigManager and the settings form: operations on the configuration   *)
(***************************************************************************)
TunnelIds == {"t" \o ToString(i) : i \in 1..MaxIds}

\* what the tunnel form submits (the identifier is assigned by addTunnel):
\* a valid tunnel, one without a name and with a local port out of range,
\* one with a remote port out of range
TunnelInputs ==
    {Tunnel("", "web", 8080, 6001, TRUE),
     Tunnel("", "", 0, 6001, TRUE),
     Tunnel("", "ssh", 22, 70000, TRUE)}

\* what the settings form submits
ServerInputs ==
    {[serverAddr |-> "frp.example.com", serverPort |-> 7000, authToken |-> "secret"],
     [serverAddr |-> "frp.example.com", serverPort |-> 70000, authToken |-> "secret"],
     [serverAddr |-> "", serverPort |-> 0, authToken |-> ""]}

Call(name) == <<Ev("call", name, 0)>>
Lines(kind, seq) == [i \in 1..Len(seq) |-> Ev(kind, seq[i], 0)]
WithOut(cfg, o) == [Cur EXCEPT !.config = cfg, !.out = o]

SaveSettings ==
    \E updates \in ServerInputs :
        /\ Merge(config, updates) # config
        /\ Apply(WithOut(Merge(config, updates), Call("saveConfig")))

AddTunnel ==
    \E tunnel \in TunnelInputs, id \in TunnelIds :
        /\ Len(config.tunnels) < MaxTunnels
        /\ \A i \in 1..Len(config.tunnels) : config.tunnels[i].id # id
        /\ Apply(WithOut(addTunnel(config, tunnel, id),
                         Call("addTunnel") \o <<Ev("result", id, 1)>>))

UpdateTunnel ==
    \E id \in TunnelIds :
        LET index == findIndex(config.tunnels, id)
            \* the toggle of the tunnel list
            enabled == IF index = 0 THEN FALSE ELSE ~config.tunnels[index].enabled
            r == updateTunnel(config, id, [enabled |-> enabled])
        IN Apply(WithOut(r.config,
                         Call("updateTunnel")
                         \o <<IF r.ok THEN Ev("result", id, 1)
                              ELSE Ev("throw", "Tunnel with id " \o id \o " not found", 0)>>))

RemoveTunnel ==
    \E id \in TunnelIds :
        LET r == removeTunnel(config, id)
        IN Apply(WithOut(r.config,
                         Call("removeTunnel")
                         \o <<IF r.ok THEN Ev("result", id, 1)
                              ELSE Ev("throw", "Tunnel with id " \o id \o " not found", 0)>>))

ValidateConfig ==
    LET r == validateConfig(config)
    IN Apply(WithOut(config,
                     Call("validateConfig") \o Lines("push", r.errors)
                     \o <<Ev("result", "valid", IF r.valid THEN 1 ELSE 0)>>))

GenerateFrpcConfig ==
    Apply(WithOut(config,
                  Call("generateFrpcConfig") \o Lines("push", FrpcConfigLines(config))
                  \o <<Ev("result", generateFrpcConfig(config), 0)>>))

ConfigPreview ==
    \E showToken \in BOOLEAN :
        Apply(WithOut(config,
                      Call("generateConfigPreview")
                      \o Lines("push", ConfigPreviewLines(config, showToken))
                      \o <<Ev("result", generateConfigPreview(config, showToken),
                              IF showToken THEN 1 ELSE 0)>>))

ExportConfig ==
    Apply(WithOut(config,
                  Call("exportConfig") \o Lines("push", ExportLines(config))
                  \o <<Ev("result", exportConfig(config), 0)>>))

NextConfig ==
    \/ SaveSettings
    \/ AddTunnel
    \/ UpdateTunnel
    \/ RemoveTunnel
    \/ ValidateConfig
    \/ GenerateFrpcConfig
    \/ ConfigPreview
    \/ ExportConfig

SpecConfig == Init /\ [][NextConfig]_vars

\* the supervisor where kill() may fail but the caller serializes its
\* lifecycle calls: none is made while a stop() promise is unresolved (no
\* retry timer is ever overwritten here, so none fires unreferenced)
NextSerial ==
    \/ stops = <<>> /\ Start
    \/ stops = <<>> /\ Stop(KillOutcomes)
    \/ stops = <<>> /\ Restart(KillOutcomes)
    \/ ChildStdout
    \/ ChildExit
    \/ ChildSpawnError
    \/ ReconnectTimerFires
    \/ StopTimeoutFires(KillOutcomes)

SpecSerial == Init /\ [][NextSerial]_vars

\* testConnection() and the events of its socket and timer, next to the
\* lifecycle of the supervised process
ProbeHosts == {"frp.example.com"}
ProbePorts == {7000, 70000}
ProbeArgs ==
    {<<h, p>> : h \in ProbeHosts, p \in ProbePorts}
        \cup {<<h, p, 1000>> : h \in ProbeHosts, p \in ProbePorts}
SocketErrorMessages == {"connect ECONNREFUSED", "getaddrinfo ENOTFOUND"}

Probe(p, o) ==
    /\ probe' = p
    /\ out' = o
    /\ UNCHANGED <<config, process, lastError, autoReconnect, reconnectAttempts,
                   reconnectTimer, intentionallyStopped, children, orphanTimers,
                   stops, retryDelays, killErrors>>

\* the previous probe is over: its socket emits nothing more, its timer is not pending
ProbeOver == probe.socket # "connecting" /\ probe.timer # "pending"

TestConnection ==
    /\ ProbeOver
    /\ \E args \in ProbeArgs :
           Probe(testConnection(args), <<Ev("call", "testConnection", args[2])>>)

SocketConnects ==
    /\ probe.socket = "connecting"
    /\ Probe(onConnect(probe), <<Ev("socket", "connect", 0)>>)

SocketError ==
    /\ probe.socket = "connecting"
    /\ \E message \in SocketErrorMessages :
           Probe(onSocketError(probe, message), <<Ev("socket", "error", 0)>>)

ProbeTimeoutFires ==
    /\ probe.timer = "pending"
    /\ Probe(onProbeTimeout(probe), <<Ev("timer", "testConnection", probe.timeout)>>)

NextProbe ==
    \/ TestConnection
    \/ SocketConnects
    \/ SocketError
    \/ ProbeTimeoutFires
    \/ Start
    \/ Stop({"sent"})
    \/ ChildExit
    \/ ReconnectTimerFires

SpecProbe == Init /\ [][NextProbe]_vars

\* the supervisor with kill() failures, under the scheduling the runtime
\* guarantees: a timer that is set fires, a spawn failure is reported, and a
\* process that a stop() has signalled and that is still associated exits.
\* stop() is not called between spawn() and the report of its failure (the
\* report is queued before any other event is handled).
SpawnReported == IF process = NoProcess THEN TRUE ELSE children[process].st = "alive"

SignalledExit ==
    \E p \in ChildIds, code \in ExitCodes :
        /\ children[p].st = "alive"
        /\ p = process
        /\ \E i \in 1..Len(stops) : stops[i].child = p
        /\ \E e \in SpawnChoices(\E i \in 1..Len(stops) : stops[i].child = p /\ stops[i].restart) :
               Apply(childExit(Trigger("child", "exit", p), p, code, e.fs, e.spawn))

NextStopLive ==
    \/ SpawnReported /\ Start
    \/ SpawnReported /\ Stop(KillOutcomes)
    \/ ChildStdout
    \/ ChildExit
    \/ ChildSpawnError
    \/ StopTimeoutFires(KillOutcomes)

SpecStopLive ==
    /\ Init
    /\ [][NextStopLive]_vars
    /\ WF_vars(SignalledExit)
    /\ WF_vars(ChildSpawnError)
    /\ WF_vars(StopTimeoutFires(KillOutcomes))

TypeOK ==
    /\ config \in Configs
    /\ process \in {NoProcess} \cup ChildIds
    /\ autoReconnect \in BOOLEAN
    /\ reconnectAttempts \in 0..maxReconnectAttempts
    /\ intentionallyStopped \in BOOLEAN
    /\ reconnectTimer.state \in {"none", "pending", "fired"}
    /\ Len(Live(stops)) <= MaxStops

(***************************************************************************)
(* Vocabulary of the properties                                            *)
(***************************************************************************)
IsTrigger(o, kind, what) == Len(o) > 0 /\ o[1].ev = kind /\ o[1].arg = what
ManualStart(o) == IsTrigger(o, "call", "start")
ManualStop(o) == IsTrigger(o, "call", "stop")
ManualRestart(o) == IsTrigger(o, "call", "restart")
RetryFires(o) == IsTrigger(o, "timer", "reconnect") \/ IsTrigger(o, "timer", "orphan")
GraceElapses(o) == IsTrigger(o, "timer", "stop")
ExitEvent(o) == IsTrigger(o, "child", "exit")
ErrorEvent(o) == IsTrigger(o, "child", "error")
StdoutData(o) == IsTrigger(o, "child", "stdout")

NotifyConnected == Ev("notify", "FRP Connected", 0)
NotifyMaxAttempts == Ev("notify", "FRP Reconnect Failed", 0)
StatusStopped == Ev("status", "stopped", 0)
StatusRunning == Ev("status", "running", 0)
StartReturns(o, ok) == Has(o, Ev("return", "start", IF ok THEN 1 ELSE 0))
StopResolves(o) == Has(o, Ev("resolve", "stop", 1))
Spawns(o) == HasEv(o, "spawn")
RetryScheduled(o) == \E i \in 1..Len(o) : o[i].ev = "setTimeout" /\ o[i].arg = "reconnect"
RetryScheduledIn(o, ms) == Has(o, Ev("setTimeout", "reconnect", ms))
Signals(o, signal) == \E i \in 1..Len(o) : o[i].ev = "kill" /\ o[i].arg = signal
ErrorEmitted(o) == HasEv(o, "error")
StopWaitsFor(p) == \E i \in 1..Len(stops) : stops[i].child = p
RestartWaitsFor(p) == \E i \in 1..Len(stops) : stops[i].child = p /\ stops[i].restart
AliveChildren == {c \in ChildIds : children[c].st = "alive"}
\* the step ran start() up to a spawn() that threw
SpawnThrew(o) == HasEv(o, "writeFrpcConfig") /\ ~Spawns(o) /\ StartReturns(o, FALSE)
\* position of the first event of a kind in what a step emitted (0: none)
FirstOf(o, ev) ==
    IF HasEv(o, ev) THEN CHOOSE i \in 1..Len(o) : o[i].ev = ev /\ \A j \in 1..(i - 1) : o[j].ev # ev
    ELSE 0

(***************************************************************************)
(* C1: with auto-reconnect on and every process exiting without having    *)
(* connected, the retries scheduled since the counter was zero are        *)
(* 5000, 10000, ... ms, the n-th being 5000*n, and never more than five;  *)
(* an unexpected exit with the counter at five fires the 'max attempts'   *)
(* notification and schedules no sixth retry.                             *)
(***************************************************************************)
C1_LinearBackoffFiveRetries ==
    /\ [](/\ reconnectAttempts <= 5
          /\ retryDelays = [n \in 1..reconnectAttempts |-> 5000 * n])
    /\ [][(ExitEvent(out') /\ ~intentionallyStopped /\ autoReconnect /\ ~StopWaitsFor(out'[1].n))
          => IF reconnectAttempts < 5
             THEN /\ RetryScheduledIn(out', 5000 * (reconnectAttempts + 1))
                  /\ reconnectAttempts' = reconnectAttempts + 1
                  /\ reconnectTimer' = [state |-> "pending", delay |-> 5000 * (reconnectAttempts + 1)]
                  /\ ~Has(out', NotifyMaxAttempts)
             ELSE /\ Has(out', NotifyMaxAttempts)
                  /\ ~RetryScheduled(out')
                  /\ reconnectTimer'.state # "pending"
                  /\ reconnectAttempts' = reconnectAttempts]_vars

C1_Witness ==
    /\ ExitEvent(out)
    /\ Has(out, Ev("error", "frpc exited with code 1", 0))
    /\ Has(out, NotifyMaxAttempts)
    /\ retryDelays = <<5000, 10000, 15000, 20000, 25000>>
    /\ reconnectTimer.state # "pending"

C3_AtMostOneAlive == Cardinality(AliveChildren) <= 1

C3_Witness == Cardinality(AliveChildren) = 1 /\ Spawns(out) /\ reconnectAttempts > 0

(***************************************************************************)
(* C4: within one run of a process the 'connected' notification fires at  *)
(* most once: on the first stdout line that carries a success marker,     *)
(* together with the reset of the attempt counter; later matching lines   *)
(* of the same run fire nothing and leave the counter alone.              *)
(***************************************************************************)
SuccessTexts == {"[I] login to server success", "[I] [web] start proxy success"}
SuccessLogs(o) == {i \in 1..Len(o) : o[i].ev = "log" /\ o[i].arg \in SuccessTexts}

C4_ConnectedOncePerRun ==
    [][StdoutData(out')
       => LET p == out'[1].n
              fired == CountEv(out', NotifyConnected)
          IN /\ fired <= 1
             /\ fired = 1 <=> (~children[p].connected /\ SuccessLogs(out') # {})
             /\ fired = 1 => /\ reconnectAttempts' = 0
                             /\ children'[p].connected
                             \* right after the first matching line
                             /\ \E i \in SuccessLogs(out') :
                                   /\ \A j \in SuccessLogs(out') : i <= j
                                   /\ out'[i + 1] = NotifyConnected
             /\ fired = 0 => /\ reconnectAttempts' = reconnectAttempts
                             /\ children'[p].connected = children[p].connected]_vars

C4_Witness ==
    /\ StdoutData(out)
    /\ Cardinality(SuccessLogs(out)) = 2
    /\ CountEv(out, NotifyConnected) = 1
    /\ reconnectAttempts = 0

C4_WitnessLater ==
    /\ StdoutData(out)
    /\ SuccessLogs(out) # {}
    /\ CountEv(out, NotifyConnected) = 0

(***************************************************************************)
(* C5: when validateConfig reports the configuration invalid, start()     *)
(* (manual or from the retry timer) returns false, spawns nothing, sets   *)
(* lastError to the errors joined with "; ", emits it as an error event   *)
(* and schedules no retry.                                                 *)
(***************************************************************************)
C5_InvalidConfigFailsStart ==
    [][((ManualStart(out') \/ RetryFires(out')) /\ process = NoProcess
            /\ ~validateConfig(config).valid)
       => /\ StartReturns(out', FALSE)
          /\ ~Spawns(out')
          /\ process' = NoProcess
          /\ children' = children
          /\ lastError' = JoinStr(validateConfig(config).errors, "; ")
          /\ config = DEFAULT_CONFIG
                => lastError' = "Server address is required; Auth token is required"
          /\ Has(out', Ev("error", lastError', 0))
          /\ ~RetryScheduled(out')
          /\ reconnectTimer' = NoTimer
          /\ reconnectAttempts' = reconnectAttempts]_vars

C5_Witness ==
    /\ RetryFires(out)
    /\ StartReturns(out, FALSE)
    /\ lastError = "Server address is required; Auth token is required"
    /\ process = NoProcess

(***************************************************************************)
(* C6: whenever the process fails to launch, by a synchronous exception   *)
(* of spawn or by the child's 'error' event, lastError is a 'Failed to    *)
(* start frpc' message and the start() call that attempted the spawn      *)
(* returns false.                                                          *)
(***************************************************************************)
FailedToStart ==
    {"Failed to start frpc: Error: spawn", "Failed to start frpc: spawn frpc ENOENT",
     "Failed to start frpc: kill EPERM"}

C6_LaunchFailureReturnsFalse ==
    [][/\ SpawnThrew(out') => lastError' \in FailedToStart
       /\ ErrorEvent(out') => lastError' \in FailedToStart
       \* the start() whose child will report the launch failure
       /\ (Spawns(out') /\ children'[process'].st = "failed") => StartReturns(out', FALSE)]_vars

C7_WitnessThrow ==
    /\ SpawnThrew(out)
    /\ lastError = "Failed to start frpc: Error: spawn"
    /\ reconnectTimer.state # "pending"


(***************************************************************************)
(* C8: with a process associated, stop() sends SIGTERM and starts the     *)
(* 5000 ms grace timer without resolving; its promise resolves only in    *)
(* the step that delivers the exit event of the process it waits for;     *)
(* SIGKILL is sent only when the grace timer of a stop() fires whose      *)
(* process has not exited, never by the stop() call itself.               *)
(***************************************************************************)
Resolves(o) == CountEv(o, Ev("resolve", "stop", 1))
WaitingIn(rs, p) == Len(SelectSeq(rs, LAMBDA r : r.child = p))
WaitingFor(p) == WaitingIn(stops, p)
RestartWaitsIn(rs, p) == \E i \in 1..Len(rs) : rs[i].child = p /\ rs[i].restart

C8_StopResolvesAfterExit ==
    [][/\ ((ManualStop(out') \/ ManualRestart(out')) /\ process # NoProcess)
              => /\ Resolves(out') = 0
                 /\ Has(out', Ev("kill", "SIGTERM", process))
                 /\ Has(out', Ev("setTimeout", "stop", 5000))
                 /\ ~Signals(out', "SIGKILL")
                 /\ WaitingIn(stops', process) = WaitingFor(process) + 1
                 /\ children'[process] = children[process]
       \* resolution: as many promises as stop() calls wait for the child
       /\ ExitEvent(out') => Resolves(out') = WaitingFor(out'[1].n)
       /\ Resolves(out') > 0
              => \/ ExitEvent(out')
                 \/ (ManualStop(out') \/ ManualRestart(out')) /\ process = NoProcess
       /\ GraceElapses(out')
              => /\ Resolves(out') = 0
                 /\ Signals(out', "SIGKILL") <=> process # NoProcess
                 /\ ~Signals(out', "SIGTERM")
                 \* the process the stop() waits for has not exited
                 /\ out'[1].n # NoProcess
                       => /\ children[out'[1].n].st # "free"
                          /\ process = out'[1].n
                                => Has(out', Ev("kill", "SIGKILL", out'[1].n))
       /\ Signals(out', "SIGKILL") => GraceElapses(out')]_vars

\* the process exits after the grace timer fired and SIGKILL was sent
C8_Witness ==
    /\ ExitEvent(out)
    /\ Resolves(out) = 1
    /\ ~Spawns(out)
    /\ process = NoProcess
    /\ intentionallyStopped
    /\ stops = <<>>

C8_WitnessGrace ==
    /\ GraceElapses(out)
    /\ Has(out, Ev("kill", "SIGKILL", process))
    /\ Len(stops) = 1 /\ stops[1].timeout = "fired"

(***************************************************************************)
(* C9: restart() on a running process only stops it; its start() runs in  *)
(* the step that delivers the exit of that process, after the stop()      *)
(* promise resolved; that exit schedules no retry and leaves the attempt  *)
(* counter alone, and the start() that follows clears the                 *)
(* intentional-stop flag.  start() runs in no other step than a start()   *)
(* call, a retry timer, an idle restart() or such an exit.                *)
(***************************************************************************)
StartRuns(o) == HasEv(o, "return")

C10_IdleStopIsNoOp ==
    [][(ManualStop(out') /\ process = NoProcess)
       => /\ out' = <<Ev("call", "stop", 0), Ev("resolve", "stop", 1)>>
          /\ lastError' = lastError
          /\ reconnectAttempts' = reconnectAttempts
          /\ process' = NoProcess
          /\ children' = children
          /\ stops' = stops
          /\ config' = config
          /\ autoReconnect' = autoReconnect
          /\ intentionallyStopped'
          /\ reconnectTimer' = NoTimer]_vars

C10_Witness ==
    /\ out = <<Ev("call", "stop", 0), Ev("resolve", "stop", 1)>>
    /\ lastError = "frpc exited with code 1"
    /\ reconnectAttempts = 2
    /\ intentionallyStopped


(***************************************************************************)
(* Vocabulary of the properties of the configuration operations           *)
(***************************************************************************)
Called(name) == Len(out) > 0 /\ out[1] = Ev("call", name, 0)
\* what the call pushed on its list (errors or lines), and what it returned
Pushed == [i \in 1..(Len(out) - 2) |-> out[i + 1].arg]
Result == out[Len(out)]
ReportsValid == Result = Ev("result", "valid", 1)
ReportsInvalid == Result = Ev("result", "valid", 0)

RemotePortsOf(tunnels) == {tunnels[i].remotePort : i \in 1..Len(tunnels)}
\* the remote ports that two or more of the tunnels have
SharedPorts(tunnels) ==
    {p \in RemotePortsOf(tunnels) :
        \E i, j \in 1..Len(tunnels) :
            i # j /\ tunnels[i].remotePort = p /\ tunnels[j].remotePort = p}

\* every duplicate-port message there can be about the ports of the tunnels
PortLists(tunnels) ==
    UNION {[1..n -> RemotePortsOf(tunnels)] : n \in 1..Len(tunnels)}
DuplicateMessage(ports) == "Duplicate remote ports: " \o JoinStr(MapToStr(ports), ", ")
IsDuplicateMessage(m) ==
    \E ports \in PortLists(config.tunnels) : m = DuplicateMessage(ports)
DuplicateMessages == {i \in 1..Len(Pushed) : IsDuplicateMessage(Pushed[i])}

(***************************************************************************)
(* C11: when two or more tunnels share a remote port, validateConfig      *)
(* returns valid = false and its errors hold exactly one duplicate-port   *)
(* message, which lists every shared port exactly once, however many      *)
(* tunnels share it.                                                       *)
(***************************************************************************)
C11_DuplicatePortsReportedOnce ==
    (Called("validateConfig") /\ SharedPorts(config.tunnels) # {})
        => /\ ReportsInvalid
           /\ Cardinality(DuplicateMessages) = 1
           /\ \A i \in DuplicateMessages :
                 \E ports \in PortLists(config.tunnels) :
                     /\ Pushed[i] = DuplicateMessage(ports)
                     /\ Len(ports) = Cardinality(SharedPorts(config.tunnels))
                     /\ {ports[k] : k \in 1..Len(ports)} = SharedPorts(config.tunnels)

\* three tunnels on remote port 6001
C11_Witness ==
    /\ Called("validateConfig")
    /\ Len(config.tunnels) = 3
    /\ \A i \in 1..3 : config.tunnels[i].remotePort = 6001
    /\ \E i \in 1..Len(Pushed) : Pushed[i] = "Duplicate remote ports: 6001"
    /\ ReportsInvalid

(***************************************************************************)
(* C12: validateConfig reports a duplicate-port error if and only if two  *)
(* enabled tunnels share a remote port; a port shared only with disabled  *)
(* tunnels yields no duplicate-port error.                                *)
(***************************************************************************)
C12_DuplicateRuleEnabledOnly ==
    Called("validateConfig")
        => (DuplicateMessages # {}
                <=> SharedPorts(EnabledTunnels(config.tunnels)) # {})


(***************************************************************************)
(* C13: validateConfig returns valid = true exactly when the server       *)
(* address is non-empty, the server port is in 1..65535, the auth token   *)
(* is non-empty, no remote port is shared and every tunnel's local and    *)
(* remote port is in 1..65535; every violated rule has its message in     *)
(* the errors (no short-circuit), in the order address, port, token,      *)
(* duplicates, tunnel ports.                                               *)
(***************************************************************************)
InPortRange(n) == n \in 1..65535
AddressMessage == "Server address is required"
PortMessage == "Server port must be between 1 and 65535"
TokenMessage == "Auth token is required"
LocalPortMessage(t) == "Tunnel \"" \o t.name \o "\": local port must be between 1 and 65535"
RemotePortMessage(t) == "Tunnel \"" \o t.name \o "\": remote port must be between 1 and 65535"
\* the place of a message in the order of the rules
Rank(m) ==
    IF m = AddressMessage THEN 1
    ELSE IF m = PortMessage THEN 2
    ELSE IF m = TokenMessage THEN 3
    ELSE IF IsDuplicateMessage(m) THEN 4
    ELSE 5
Reported(m) == \E i \in 1..Len(Pushed) : Pushed[i] = m
BadLocal == {i \in 1..Len(config.tunnels) : ~InPortRange(config.tunnels[i].localPort)}
BadRemote == {i \in 1..Len(config.tunnels) : ~InPortRange(config.tunnels[i].remotePort)}
Violations ==
    (IF config.serverAddr = "" THEN 1 ELSE 0)
    + (IF ~InPortRange(config.serverPort) THEN 1 ELSE 0)
    + (IF config.authToken = "" THEN 1 ELSE 0)
    + (IF SharedPorts(config.tunnels) # {} THEN 1 ELSE 0)
    + Cardinality(BadLocal) + Cardinality(BadRemote)

C13_ValidIffAllRulesHold ==
    Called("validateConfig")
        => /\ ReportsValid <=> Violations = 0
           /\ ReportsInvalid <=> Violations > 0
           /\ Reported(AddressMessage) <=> config.serverAddr = ""
           /\ Reported(PortMessage) <=> ~InPortRange(config.serverPort)
           /\ Reported(TokenMessage) <=> config.authToken = ""
           /\ DuplicateMessages # {} <=> SharedPorts(config.tunnels) # {}
           /\ \A i \in BadLocal : Reported(LocalPortMessage(config.tunnels[i]))
           /\ \A i \in BadRemote : Reported(RemotePortMessage(config.tunnels[i]))
           \* one message per violated rule, in the order of the rules
           /\ Len(Pushed) = Violations
           /\ \A i, j \in 1..Len(Pushed) : i < j => Rank(Pushed[i]) <= Rank(Pushed[j])
           \* the tunnel messages follow the order of the tunnels
           /\ \A i, j \in 1..Len(config.tunnels) :
                 (i < j /\ i \in BadLocal \cup BadRemote /\ j \in BadLocal \cup BadRemote
                        /\ config.tunnels[i].name # config.tunnels[j].name)
                    => \E a, b \in 1..Len(Pushed) :
                          /\ a < b
                          /\ Pushed[a] \in {LocalPortMessage(config.tunnels[i]),
                                            RemotePortMessage(config.tunnels[i])}
                          /\ Pushed[b] \in {LocalPortMessage(config.tunnels[j]),
                                            RemotePortMessage(config.tunnels[j])}

\* every kind of rule violated at once
C13_Witness ==
    /\ Called("validateConfig")
    /\ ReportsInvalid
    /\ Len(Pushed) = 6
    /\ Pushed[1] = AddressMessage
    /\ Pushed[2] = PortMessage
    /\ Pushed[3] = TokenMessage
    /\ Pushed[4] = "Duplicate remote ports: 6001"
    /\ Pushed[5] = "Tunnel \"tcp-0\": local port must be between 1 and 65535"
    /\ Pushed[6] = "Tunnel \"ssh\": remote port must be between 1 and 65535"

C13_WitnessValid ==
    /\ Called("validateConfig")
    /\ ReportsValid
    /\ Pushed = <<>>
    /\ Len(config.tunnels) = 1


(***************************************************************************)
(* C14: generateFrpcConfig renders the global section (serverAddr,        *)
(* serverPort, auth.method = "token", auth.token) and then exactly one    *)
(* [[proxies]] block per enabled tunnel, none for a disabled one, in the  *)
(* order of the tunnel list, each with the tunnel's name, type, localIP,  *)
(* localPort and remotePort; the result is the lines joined by newlines.  *)
(***************************************************************************)
EnabledIndexes == {i \in 1..Len(config.tunnels) : config.tunnels[i].enabled}
\* the k-th enabled tunnel, in list order
NthEnabled(k) ==
    config.tunnels[CHOOSE i \in EnabledIndexes :
                       Cardinality({j \in EnabledIndexes : j <= i}) = k]
ProxyHeaders == {i \in 1..Len(Pushed) : Pushed[i] = "[[proxies]]"}

C14_OneBlockPerEnabledTunnel ==
    Called("generateFrpcConfig")
        => /\ Len(Pushed) = 5 + 7 * Cardinality(EnabledIndexes)
           /\ Pushed[1] = "serverAddr = \"" \o config.serverAddr \o "\""
           /\ Pushed[2] = "serverPort = " \o ToString(config.serverPort)
           /\ Pushed[3] = ""
           /\ Pushed[4] = "auth.method = \"token\""
           /\ Pushed[5] = "auth.token = \"" \o config.authToken \o "\""
           /\ Cardinality(ProxyHeaders) = Cardinality(EnabledIndexes)
           /\ \A k \in 1..Cardinality(EnabledIndexes) :
                 LET at == 5 + 7 * (k - 1)
                     tunnel == NthEnabled(k)
                 IN /\ Pushed[at + 1] = ""
                    /\ Pushed[at + 2] = "[[proxies]]"
                    /\ Pushed[at + 3] = "name = \"" \o tunnel.name \o "\""
                    /\ Pushed[at + 4] = "type = \"" \o tunnel.type \o "\""
                    /\ Pushed[at + 5] = "localIP = \"" \o tunnel.localIP \o "\""
                    /\ Pushed[at + 6] = "localPort = " \o ToString(tunnel.localPort)
                    /\ Pushed[at + 7] = "remotePort = " \o ToString(tunnel.remotePort)
           /\ Result.arg = JoinStr(Pushed, "\n")

\* three tunnels, the second disabled: two blocks, in list order
C14_Witness ==
    /\ Called("generateFrpcConfig")
    /\ Len(config.tunnels) = 3
    /\ EnabledIndexes = {1, 3}
    /\ config.tunnels[2].name = "web"
    /\ Len(Pushed) = 19
    /\ Pushed[8] = "name = \"ssh\""
    /\ Pushed[15] = "name = \"tcp-0\""
    /\ Pushed[19] = "remotePort = 6001"


(***************************************************************************)
(* C15 as stated: the preview never shows the auth token: a token that    *)
(* is set is rendered as the mask (an absent one as empty), so previews   *)
(* of inputs that differ only in the token are equal, and every other     *)
(* line is the line of generateFrpcConfig.                                 *)
(***************************************************************************)
OtherTokens == {"secret", "hunter2", "s3cr3t"}
TokenLine(token) == "auth.token = \"" \o token \o "\""
ShowsToken == Result.n = 1

PreviewMasksToken ==
    /\ Len(Pushed) = Len(FrpcConfigLines(config))
    /\ \A i \in 1..Len(Pushed) : i # 5 => Pushed[i] = FrpcConfigLines(config)[i]
    /\ Result.arg = JoinStr(Pushed, "\n")
    /\ config.authToken = "" => Pushed[5] = TokenLine("")
    /\ config.authToken # ""
          => /\ Pushed[5] = TokenLine("************")
             /\ \A i \in 1..Len(Pushed) : Pushed[i] # TokenLine(config.authToken)
             \* the same preview whatever the token
             /\ \A token \in OtherTokens :
                   generateConfigPreview([config EXCEPT !.authToken = token],
                                         ShowsToken) = Result.arg

C15_PreviewNeverShowsToken ==
    Called("generateConfigPreview") => PreviewMasksToken

(***************************************************************************)
(* C15 amended: while the form's show-token toggle is off the preview     *)
(* masks the token as above; with the toggle on it is the text            *)
(* generateFrpcConfig produces, literal token included.                   *)
(***************************************************************************)
C15_PreviewMasksTokenUnlessShown ==
    Called("generateConfigPreview")
        => /\ ~ShowsToken => PreviewMasksToken
           /\ ShowsToken => /\ Pushed = FrpcConfigLines(config)
                            /\ Result.arg = generateFrpcConfig(config)

C15_Witness ==
    /\ Called("generateConfigPreview")
    /\ ~ShowsToken
    /\ config.authToken = "secret"
    /\ Pushed[5] = "auth.token = \"************\""
    /\ Len(Pushed) = 12

C15_WitnessShown ==
    /\ Called("generateConfigPreview")
    /\ ShowsToken
    /\ Pushed[5] = "auth.token = \"secret\""


(***************************************************************************)
(* C16: the text exportConfig returns does not carry the auth token: it   *)
(* has the keys serverAddr, serverPort, remotePortMin, remotePortMax,     *)
(* autoStart and tunnels only, and it is the same for any two             *)
(* configurations that differ only in authToken.                          *)
(***************************************************************************)
C16_ExportOmitsToken ==
    Called("exportConfig")
        => /\ \A token \in OtherTokens \cup {""} :
                 exportConfig([config EXCEPT !.authToken = token]) = Result.arg
           /\ Result.arg = JoinStr(Pushed, "\n")
           /\ Pushed[1] = "{"
           /\ Pushed[2] = "  \"serverAddr\": \"" \o config.serverAddr \o "\","
           /\ Pushed[3] = "  \"serverPort\": " \o ToString(config.serverPort) \o ","
           /\ Pushed[4] = "  \"remotePortMin\": 6000,"
           /\ Pushed[5] = "  \"remotePortMax\": 6100,"
           /\ Pushed[6] = "  \"autoStart\": false,"
           /\ Pushed[7] = (IF config.tunnels = <<>> THEN "  \"tunnels\": []"
                           ELSE "  \"tunnels\": [")
           /\ Pushed[Len(Pushed)] = "}"
           /\ Len(Pushed) = (IF config.tunnels = <<>> THEN 8
                             ELSE 9 + 9 * Len(config.tunnels))
           /\ \A i \in 1..Len(Pushed) :
                 Pushed[i] \notin {"  \"authToken\": \"" \o config.authToken \o "\",",
                                   "  \"authToken\": \"" \o config.authToken \o "\""}

C16_Witness ==
    /\ Called("exportConfig")
    /\ config.authToken = "secret"
    /\ Len(config.tunnels) = 2
    /\ Len(Pushed) = 27
    /\ Pushed[9] = "      \"id\": \"t2\","


(***************************************************************************)
(* C17: in every reachable state with no process associated, whatever     *)
(* failure led to it, a manual start() with a valid configuration can be   *)
(* made and, unless spawn itself throws again, it spawns a process,        *)
(* associates it, returns true and clears lastError, the intentional-stop  *)
(* flag and the retry timer.                                               *)
(***************************************************************************)
StartSucceeds ==
    /\ Start
    /\ ManualStart(out')
    /\ Spawns(out')
    /\ StartReturns(out', TRUE)
    /\ process' # NoProcess

C17_UsableAfterFailure ==
    /\ []((process = NoProcess /\ validateConfig(config).valid) => ENABLED StartSucceeds)
    /\ [][(ManualStart(out') /\ process = NoProcess /\ validateConfig(config).valid
               /\ ~SpawnThrew(out'))
          => /\ Spawns(out')
             /\ StartReturns(out', TRUE)
             /\ process' # NoProcess
             /\ children'[process'].st # "free"
             /\ lastError' = NULL
             /\ ~intentionallyStopped'
             /\ reconnectTimer' = NoTimer]_vars

\* a manual start after the retries were used up
C17_Witness ==
    /\ ManualStart(out)
    /\ Spawns(out)
    /\ StartReturns(out, TRUE)
    /\ reconnectAttempts = 5
    /\ process # NoProcess

(***************************************************************************)
(* C18: testConnection(host, port, timeout) yields exactly one outcome:    *)
(* success when the TCP connect completes before the timeout, 'Connection  *)
(* timeout' when neither connect nor error occurred within the timeout     *)
(* (default 5000 ms), or the underlying error message otherwise; on every  *)
(* one of these paths the socket is destroyed; and no step of it changes   *)
(* the supervisor state (process, timer, counter, lastError).              *)
(***************************************************************************)
ProbeStep(o) ==
    \/ IsTrigger(o, "call", "testConnection")
    \/ IsTrigger(o, "socket", "connect")
    \/ IsTrigger(o, "socket", "error")
    \/ IsTrigger(o, "timer", "testConnection")
ProbeSuccess == [success |-> TRUE, error |-> NULL]
ProbeTimedOut == [success |-> FALSE, error |-> "Connection timeout"]
ProbeFailed == {[success |-> FALSE, error |-> m] : m \in SocketErrorMessages}
\* the call is over: the promise is settled
ProbeSettled == probe.promise \notin {"none", "pending"}
ProbeOutcomeOk ==
    /\ probe.promise = "resolved"
    /\ probe.socket = "destroyed"
    /\ probe.result \in {ProbeSuccess, ProbeTimedOut} \cup ProbeFailed
    /\ probe.result = ProbeTimedOut <=> probe.timer = "fired"
    /\ probe.timer = "fired" => probe.timeout \in {DefaultTimeoutMs, 1000}
C18_ProbeOneOutcome ==
    /\ [](ProbeSettled => ProbeOutcomeOk)
    /\ [][/\ ProbeSettled /\ ~IsTrigger(out', "call", "testConnection")
              => probe'.promise = probe.promise /\ probe'.result = probe.result
          /\ IsTrigger(out', "call", "testConnection") /\ Len(out') = 1
              => probe'.timeout = DefaultTimeoutMs \/ probe'.timeout = 1000
          /\ ProbeStep(out')
              => UNCHANGED <<process, reconnectTimer, reconnectAttempts, lastError>>]_vars

(***************************************************************************)
(* C19: a process exit records its exit code as lastError (and emits an    *)
(* error event) only when the exit was not requested by the supervisor     *)
(* (intentional-stop flag not set) and the exit code is non-zero and       *)
(* non-null; an exit that follows a stop() request leaves lastError        *)
(* unchanged whatever exit code the process returns.                       *)
(***************************************************************************)
ExitErrorMessages ==
    {"frpc exited with code " \o ToString(code) : code \in ExitCodes \ {0, NoCode}}
ExitCodeReported(o) == \E i \in 1..Len(o) : o[i].ev = "error" /\ o[i].arg \in ExitErrorMessages
C19_ExitCodeRecordedOnlyIfUnrequested ==
    [][ExitEvent(out') =>
          /\ ExitCodeReported(out') => ~intentionallyStopped
          /\ intentionallyStopped /\ ~RestartWaitsFor(out'[1].n) => lastError' = lastError]_vars

(***************************************************************************)
(* C20: when a process terminates while the intentional-stop flag is set   *)
(* or auto-reconnect is disabled, the reconnect sub-flow is skipped        *)
(* entirely: no retry timer is scheduled, the attempt counter is unchanged *)
(* and no max-attempts notification fires.                                 *)
(***************************************************************************)
C20_ReconnectSkipped ==
    [][(ExitEvent(out') \/ ErrorEvent(out')) /\ (intentionallyStopped \/ ~autoReconnect) =>
          /\ ~RetryScheduled(out')
          /\ reconnectAttempts' = reconnectAttempts
          /\ reconnectTimer' = reconnectTimer
          /\ ~Has(out', NotifyMaxAttempts)]_vars
\* a stopped process exits after retries had been made: nothing is scheduled
C20_Witness ==
    /\ ExitEvent(out)
    /\ intentionallyStopped
    /\ reconnectAttempts > 0
    /\ reconnectTimer = NoTimer
    /\ process = NoProcess
\* a process exits on its own with auto-reconnect switched off
C20_WitnessDisabled ==
    /\ ExitEvent(out)
    /\ ~intentionallyStopped
    /\ ~autoReconnect
    /\ reconnectTimer.state # "pending"
    /\ process = NoProcess

(***************************************************************************)
(* C21: when a process exits unexpectedly with the attempt counter already *)
(* at five, no retry is scheduled and the terminal notification fires; no  *)
(* automatic start occurs afterwards (no retry timer is left pending), and *)
(* a manual start() resumes auto-reconnection: an unexpected exit of the   *)
(* manually started process is again followed by a scheduled retry.        *)
(***************************************************************************)
UnexpectedExit(o) == ExitEvent(o) /\ ~intentionallyStopped /\ autoReconnect
ManuallyStarted == ManualStart(out) /\ Spawns(out) /\ StartReturns(out, TRUE)
C21_MaxAttemptsThenManualResume ==
    [][/\ UnexpectedExit(out') /\ reconnectAttempts = maxReconnectAttempts
          => /\ ~RetryScheduled(out')
             /\ Has(out', NotifyMaxAttempts)
             /\ reconnectTimer'.state # "pending"
       /\ ManuallyStarted /\ UnexpectedExit(out') /\ out'[1].n = process
          => RetryScheduled(out') /\ reconnectTimer'.state = "pending"]_vars

(***************************************************************************)
(* C22: in every reachable state at most one reconnect retry timer is      *)
(* outstanding (scheduled and neither fired nor cancelled): a new timer is *)
(* never scheduled while another is outstanding, including when both the   *)
(* 'error' and the 'exit' event are delivered for the same process, and    *)
(* start() cancels any pending timer before it spawns.                     *)
(***************************************************************************)
OutstandingTimers ==
    BagCardinality(orphanTimers) + (IF reconnectTimer.state = "pending" THEN 1 ELSE 0)
C22_AtMostOneRetryTimer ==
    /\ [](OutstandingTimers <= 1)
    /\ [][/\ RetryScheduled(out') /\ ~Spawns(out') => OutstandingTimers = 0
          /\ Spawns(out') /\ ~RetryScheduled(out') => OutstandingTimers' = 0]_vars

(***************************************************************************)
(* C23: in every reachable state 0 <= reconnectAttempts <= 5; the counter  *)
(* is reset to zero only by the first connection-established signal of a   *)
(* run, increases by exactly one each time a retry is scheduled, and is    *)
(* changed by nothing else (not by start(), stop() or restart()).          *)
(***************************************************************************)
C23_AttemptCounter ==
    /\ [](reconnectAttempts \in 0..maxReconnectAttempts)
    /\ [][/\ reconnectAttempts' # reconnectAttempts
             => \/ /\ reconnectAttempts' = 0
                   /\ StdoutData(out')
                   /\ CountEv(out', NotifyConnected) = 1
                \/ /\ reconnectAttempts' = reconnectAttempts + 1
                   /\ RetryScheduled(out')
          /\ RetryScheduled(out') => reconnectAttempts' = reconnectAttempts + 1
          /\ Has(out', NotifyConnected) => reconnectAttempts' = 0
          /\ ManualStart(out') \/ ManualStop(out') \/ ManualRestart(out')
             => reconnectAttempts' = reconnectAttempts]_vars
\* the fifth retry has just been scheduled
C23_Witness ==
    /\ RetryScheduledIn(out, reconnectDelay * maxReconnectAttempts)
    /\ reconnectAttempts = maxReconnectAttempts
\* a process started by a retry reports its connection: the counter is zero again
C23_WitnessReset ==
    /\ StdoutData(out)
    /\ Has(out, NotifyConnected)
    /\ reconnectAttempts = 0
    /\ process # NoProcess

(***************************************************************************)
(* C24: when the external executable cannot be located (it exists in none  *)
(* of the known install locations), start() fails with the 'frpc binary    *)
(* not found' error recorded as lastError and emitted as an error event,   *)
(* returns false and spawns nothing.                                       *)
(***************************************************************************)
BinaryNotFoundMessage == "frpc binary not found. Please install FRP."
\* the step handed spawn() an executable that does not exist (ENOENT)
SpawnedMissingBinary ==
    \E p \in ChildIds : children[p].st = "free" /\ children'[p].st = "failed"
C24_BinaryNotFound ==
    [][/\ StartRuns(out') /\ SpawnedMissingBinary
          => /\ lastError' = BinaryNotFoundMessage
             /\ Has(out', Ev("error", BinaryNotFoundMessage, 0))
             /\ StartReturns(out', FALSE)
       /\ ~SpawnedMissingBinary]_vars

(***************************************************************************)
(* C25: status events are fired exactly at the transitions and after the   *)
(* state they describe has taken effect: one 'running' event per           *)
(* successful spawn and exactly one 'stopped' event per process            *)
(* termination, so successive status events alternate between 'running'    *)
(* and 'stopped', also for a termination requested through stop().         *)
(***************************************************************************)
StatusEvents(o) == SelectSeq(o, LAMBDA e : e.ev = "status")
SpawnEvents(o) == SelectSeq(o, LAMBDA e : e.ev = "spawn")
Alternate(events) == \A i \in 1..(Len(events) - 1) : events[i] # events[i + 1]
C25_StatusEventsAlternate ==
    [][/\ Alternate(StatusEvents(out'))
       /\ CountEv(out', StatusRunning) = Len(SpawnEvents(out'))
       /\ ExitEvent(out') \/ ErrorEvent(out')
          => CountEv(out', StatusStopped) = 1
       /\ Len(StatusEvents(out')) > 0
          => (StatusEvents(out')[1] = StatusStopped <=> process # NoProcess)]_vars

(***************************************************************************)
(* C26: after any sequence of addTunnel, updateTunnel and removeTunnel     *)
(* calls, the identifiers of the tunnels in the configuration are pairwise *)
(* distinct, a tunnel keeps the identifier assigned at its creation, and   *)
(* updateTunnel/removeTunnel with an unknown identifier fail leaving the   *)
(* tunnel list unchanged.                                                  *)
(***************************************************************************)
IdsOf(tunnels) == {tunnels[i].id : i \in 1..Len(tunnels)}
DistinctIds(tunnels) ==
    \A i, j \in 1..Len(tunnels) : tunnels[i].id = tunnels[j].id => i = j
NotFound(id) == Ev("throw", "Tunnel with id " \o id \o " not found", 0)
Throws(o) == HasEv(o, "throw")
\* the identifier the call was made with
CalledWith(o, name, id) ==
    /\ IsTrigger(o, "call", name)
    /\ Has(o, Ev("result", id, 1)) \/ Has(o, NotFound(id))
\* the tunnel sequence without its element of that identifier
Without(tunnels, id) == SelectSeq(tunnels, LAMBDA t : t.id # id)
C26_WitnessUpdated ==
    /\ IsTrigger(out, "call", "updateTunnel")
    /\ ~Throws(out)
    /\ Len(config.tunnels) >= 2
    /\ \E i \in 1..Len(config.tunnels) :
           Has(out, Ev("result", config.tunnels[i].id, 1)) /\ ~config.tunnels[i].enabled

(***************************************************************************)
(* C27: if start() is called while a stop() is in flight (termination      *)
(* signal sent, exit not yet observed), start() returns success without    *)
(* spawning and without clearing the intentional-stop flag; when the exit  *)
(* then arrives the supervisor ends with no process associated and no      *)
(* retry pending: the interleaved start request is never honoured.         *)
(***************************************************************************)
StopInFlight == process # NoProcess /\ StopWaitsFor(process) /\ ~RestartWaitsFor(process)
C27_StartDuringStopIgnored ==
    [][/\ ManualStart(out') /\ StopInFlight
          => /\ StartReturns(out', TRUE)
             /\ ~Spawns(out')
             /\ intentionallyStopped /\ intentionallyStopped'
             /\ process' = process
             /\ StopInFlight'
       /\ ExitEvent(out') /\ StopInFlight /\ out'[1].n = process
          => /\ process' = NoProcess
             /\ ~Spawns(out')
             /\ ~RetryScheduled(out')
             /\ reconnectTimer'.state # "pending"
             /\ intentionallyStopped']_vars
\* start() has just returned true while the stop() is still waiting for the exit
C27_Witness ==
    /\ ManualStart(out)
    /\ StartReturns(out, TRUE)
    /\ ~Spawns(out)
    /\ StopInFlight
    /\ intentionallyStopped

C29_NoAutomaticStartWhileDisabled ==
    [][RetryFires(out') => autoReconnect]_vars

(***************************************************************************)
(* C30: every stop() call eventually resolves with true, whichever way the *)
(* associated process terminates: exit after the graceful signal, exit     *)
(* after the forced kill sent when the 5-second grace period elapses, or a *)
(* process failure reported through the child's 'error' event.             *)
(***************************************************************************)
C30_StopEventuallyResolves == (stops # <<>>) ~> (stops = <<>>)

====
